---- MODULE Spec2Model ----
(***************************************************************************)
(* Model of app.py, the Streamlit dashboard over top_kpis.csv.             *)
(*                                                                         *)
(* One script run (a Streamlit rerun) executes app.py top to bottom: it    *)
(* loads the table through the st.cache_data cache, renders header and     *)
(* banner, validates the columns, coerces the numeric columns, reads the   *)
(* sidebar widgets, derives the filtered frames and renders KPIs and tabs. *)
(* Every user interaction changes one widget and triggers one such run.    *)
(*                                                                         *)
(* Encoding.  City names are integers whose numeric order is the           *)
(* lexicographic order of the names (sorted() and groupby order by it).    *)
(* A table is a sequence of rows; the row index is the DataFrame index.    *)
(* Cell values are non-negative integers; NaN is pandas' missing marker    *)
(* and BadCell a cell of the file that does not parse as a number.         *)
(* Means and normalised values are exact rationals [nan, num, den].        *)
(***************************************************************************)
EXTENDS Integers, Sequences, FiniteSets, TLC

\* ------------------------------------------------------------------ bounds
\* Largest "Cities per page" the model moves the slider to, besides its
\* default (the slider itself runs from page_size_min to page_size_max).
MaxPageSize == 5
\* Largest Top-N the model moves the slider to, besides its default.
MaxTopN == 3
\* Rows of an input table of the general family.
GenRows == 4
\* Cities of the input table of the paging family.
NPageCities == 6
\* Cities of an input table of the ranking family.
NRankCities == 4

\* ------------------------------------------------------- program constants
page_size_min == 5
page_size_max == 15
page_size_default == 10
topn_min == 3
topn_default == 10
radar_default_n == 3
\* topn = None when the Top-N checkbox is off (falsy in "if topn:").
topn_None == 0
\* A name the script has not bound in this run (total_pages and page under
\* show_all; every derived name after st.stop()).
Unbound == 0
\* pandas' missing marker, and a file cell that is not a number.
NaN == -1
BadCell == -2

required_cols ==
    {"CustLocation", "Cluster", "CustomerCount", "AvgAge", "AvgRecency",
     "AvgFrequency", "AvgAvgMonetary", "AvgTotalMonetary"}

metric_cols == <<"AvgFrequency", "AvgTotalMonetary", "AvgRecency">>

\* ------------------------------------------------------------------ helpers
Max2(a, b) == IF a >= b THEN a ELSE b
Min2(a, b) == IF a <= b THEN a ELSE b

SetMax(S) == CHOOSE x \in S : \A y \in S : y <= x
SetMin(S) == CHOOSE x \in S : \A y \in S : x <= y

\* math.ceil(a / b) for a >= 0, b > 0
ceil_div(a, b) == (a + b - 1) \div b

\* sorted(S): the ascending sequence of a finite set of integers
RECURSIVE sorted(_)
sorted(S) ==
    IF S = {} THEN <<>> ELSE <<SetMin(S)>> \o sorted(S \ {SetMin(S)})

Range(s) == {s[i] : i \in DOMAIN s}

\* Python slice seq[start:end] for 0 <= start <= end (0-based, end exclusive)
slice(s, start, end) ==
    [i \in 1..Max2(0, Min2(end, Len(s)) - Min2(start, Len(s))) |-> s[start + i]]

\* seq.head(n)
head(s, n) == slice(s, 0, n)

\* Series.isin(values): the boolean mask of a column
isin(frame, c, values) == [i \in DOMAIN frame |-> frame[i][c] \in values]

\* mask & mask
mask_and(a, b) == [i \in DOMAIN a |-> a[i] /\ b[i]]

\* boolean indexing frame[mask]: the rows whose mask is set, in order
RECURSIVE boolean_index(_, _)
boolean_index(frame, mask) ==
    IF frame = <<>> THEN <<>>
    ELSE (IF Head(mask) THEN <<Head(frame)>> ELSE <<>>)
         \o boolean_index(Tail(frame), Tail(mask))

\* Series.sum(): NaN cells are skipped, so an all-NaN series sums to 0
RECURSIVE sum_skipna(_)
sum_skipna(vals) ==
    IF vals = <<>> THEN 0
    ELSE (IF Head(vals) = NaN THEN 0 ELSE Head(vals)) + sum_skipna(Tail(vals))

RECURSIVE count_notna(_)
count_notna(vals) ==
    IF vals = <<>> THEN 0
    ELSE (IF Head(vals) = NaN THEN 0 ELSE 1) + count_notna(Tail(vals))

column(rows, c) == [i \in DOMAIN rows |-> rows[i][c]]

unique(rows, c) == {rows[i][c] : i \in DOMAIN rows}

\* rationals with a missing marker
NaNq == [nan |-> TRUE, num |-> 0, den |-> 1]
Q(n, d) == [nan |-> FALSE, num |-> n, den |-> d]
QLe(a, b) == a.num * b.den <= b.num * a.den
QEq(a, b) == a.num * b.den = b.num * a.den

\* Series.mean(): NaN cells are skipped; NaN when nothing is left
mean(vals) ==
    IF count_notna(vals) = 0 THEN NaNq
    ELSE Q(sum_skipna(vals), count_notna(vals))

\* round(x, 2) of x = n/d >= 0, in hundredths (rint: ties to even)
round2(n, d) ==
    LET q == (100 * n) \div d
        r == (100 * n) % d
    IN  IF 2 * r < d THEN q
        ELSE IF 2 * r > d THEN q + 1
        ELSE IF q % 2 = 0 THEN q ELSE q + 1

\* ------------------------------------------------------------ data loading
EmptyCache == [full |-> FALSE, rows |-> <<>>]

\* load_csv under st.cache_data: the body runs on a cache miss only; a
\* missing file reports and stops the script (nothing is cached then).
load_csv(csv, cached) ==
    IF cached.full THEN [stop |-> FALSE, data |-> cached.rows]
    ELSE IF ~csv.exists THEN [stop |-> TRUE, data |-> <<>>]
    ELSE [stop |-> FALSE, data |-> csv.rows]

\* What the st.cache_data cache holds after a run that loaded `loaded` and
\* whose script then changed its frame to `mutated`: every caller gets its
\* own copy, so the cached value is the one that was stored.
cache_data_aliased(loaded, mutated) == [full |-> TRUE, rows |-> mutated]
cache_data(loaded, mutated) == [full |-> TRUE, rows |-> loaded]

missing(csv) == required_cols \ csv.columns

\* pd.to_numeric(errors="coerce") on one cell
to_numeric(v) == IF v = BadCell THEN NaN ELSE v

\* the loop over num_cols
RECURSIVE coerce(_)
coerce(rows) ==
    IF rows = <<>> THEN <<>>
    ELSE <<[CustLocation |-> Head(rows).CustLocation,
            Cluster |-> Head(rows).Cluster,
            CustomerCount |-> to_numeric(Head(rows).CustomerCount),
            AvgFrequency |-> to_numeric(Head(rows).AvgFrequency),
            AvgTotalMonetary |-> to_numeric(Head(rows).AvgTotalMonetary),
            AvgRecency |-> to_numeric(Head(rows).AvgRecency)]>>
         \o coerce(Tail(rows))

all_cities(frame) == unique(frame, "CustLocation")
all_clusters(frame) == unique(frame, "Cluster")

\* ---------------------------------------------------------- filter pipeline
\* groupby("CustLocation")[c]: the cells of column c in each city's rows
group_cells(frame, by, key, c) ==
    column(boolean_index(frame, isin(frame, by, {key})), c)

\* .sort_values(ascending=False) of a series indexed by `keys` (group keys
\* come sorted): descending by value, missing values last; equal values
\* stay in index order (numpy sorts an array this small by insertion).
\* Values are >= 0 and NaN is below them all.
RECURSIVE sort_pairs_desc(_)
sort_pairs_desc(pairs) ==
    IF pairs = {} THEN <<>>
    ELSE LET first == CHOOSE p \in pairs : \A q \in pairs :
                        \/ q[1] < p[1]
                        \/ q[1] = p[1] /\ p[2] <= q[2]
         IN  <<first[2]>> \o sort_pairs_desc(pairs \ {first})

sort_values_desc(series, keys) ==
    sort_pairs_desc({<<series[k], k>> : k \in keys})

\* fdf_base.groupby("CustLocation")["CustomerCount"].sum()
\*         .sort_values(ascending=False): the cities, best first
city_totals(frame) ==
    [c \in all_cities(frame) |->
        sum_skipna(group_cells(frame, "CustLocation", c, "CustomerCount"))]

city_totals_all(base) == sort_values_desc(city_totals(base), all_cities(base))

\* city_totals_all.head(topn).index.tolist()
keep_cities_tail(base, n) ==
    Range(slice(city_totals_all(base),
                Max2(0, Len(city_totals_all(base)) - n),
                Len(city_totals_all(base))))
keep_cities(base, n) == Range(head(city_totals_all(base), n))

fdf_base_any_cluster(frame, cities, clusters, n) ==
    LET base == boolean_index(frame, isin(frame, "CustLocation", cities))
    IN  IF n # topn_None
        THEN boolean_index(base, isin(base, "CustLocation", keep_cities(base, n)))
        ELSE base

\* the base filtered frame, with the optional Top-N cut
fdf_base_of(frame, cities, clusters, n) ==
    LET base == boolean_index(frame,
                    mask_and(isin(frame, "CustLocation", cities),
                             isin(frame, "Cluster", clusters)))
    IN  IF n # topn_None
        THEN boolean_index(base, isin(base, "CustLocation", keep_cities(base, n)))
        ELSE base

\* --------------------------------------------------------------- pagination
candidate_cities(base) == sorted(all_cities(base))

total_pages_unguarded(n_cities, size) == ceil_div(n_cities, size)
total_pages_of(n_cities, size) == Max2(1, ceil_div(n_cities, size))

current_cities_from_page(base, size, p) ==
    slice(candidate_cities(base), p * size, p * size + size)
current_cities_of(base, size, p) ==
    LET start == (p - 1) * size
        end == start + size
    IN  slice(candidate_cities(base), start, end)

fdf_of(base, cities) ==
    boolean_index(base, isin(base, "CustLocation", cities))

\* st.sidebar.number_input("City page", min_value=1, max_value=total_pages,
\* value=1): raises when the bounds are inverted.  The widget's identity
\* includes its bounds, so an earlier entry survives only while total_pages
\* is what it was when the entry was made.
number_input(prev_page, prev_total, total) ==
    IF total < 1 THEN [raised |-> TRUE, value |-> Unbound]
    ELSE IF prev_total = total /\ prev_page # Unbound
         THEN [raised |-> FALSE, value |-> prev_page]
         ELSE [raised |-> FALSE, value |-> 1]

\* ------------------------------------------------------------------- KPIs
\* df["AvgTotalMonetary"] * df["CustomerCount"]: NaN where either is
product(a, b) ==
    [i \in DOMAIN a |-> IF a[i] = NaN \/ b[i] = NaN THEN NaN ELSE a[i] * b[i]]

\* the value shown by f"{weighted_spend:,.2f}", in hundredths; 0/0 on
\* numpy scalars is nan, not an exception
weighted_spend(frame) ==
    LET num == sum_skipna(product(column(frame, "AvgTotalMonetary"),
                                  column(frame, "CustomerCount")))
        den == sum_skipna(column(frame, "CustomerCount"))
    IN  IF den = 0 THEN NaN ELSE round2(num, den)

\* the frame the KPI row reads: df, whatever the filters made of it
kpi_frame_filtered(frame, view) == view
kpi_frame(frame, view) == frame

kpis_of(frame) ==
    [total_customers |-> sum_skipna(column(frame, "CustomerCount")),
     cities |-> Cardinality(all_cities(frame)),
     segments |-> Cardinality(all_clusters(frame)),
     weighted_spend |-> weighted_spend(frame)]

\* ---------------------------------------------------------- city profile
\* fdf.groupby("CustLocation")[metric_cols].mean().reset_index(): one row
\* per city, in group-key order
RECURSIVE city_profile_rows(_, _)
city_profile_rows(frame, keys) ==
    IF keys = <<>> THEN <<>>
    ELSE <<[CustLocation |-> Head(keys),
            AvgFrequency |->
                mean(group_cells(frame, "CustLocation", Head(keys), "AvgFrequency")),
            AvgTotalMonetary |->
                mean(group_cells(frame, "CustLocation", Head(keys), "AvgTotalMonetary")),
            AvgRecency |->
                mean(group_cells(frame, "CustLocation", Head(keys), "AvgRecency"))]>>
         \o city_profile_rows(frame, Tail(keys))

city_profile(frame) == city_profile_rows(frame, sorted(all_cities(frame)))

\* Series.max() / Series.min() of a column of means: NaN entries skipped,
\* NaN when nothing is left
col_max(rows, c) ==
    LET S == {rows[i][c] : i \in DOMAIN rows} \ {NaNq}
    IN  IF S = {} THEN NaNq ELSE CHOOSE q \in S : \A r \in S : QLe(r, q)
col_min(rows, c) ==
    LET S == {rows[i][c] : i \in DOMAIN rows} \ {NaNq}
    IN  IF S = {} THEN NaNq ELSE CHOOSE q \in S : \A r \in S : QLe(q, r)

\* 0.5 if rng == 0 else (v - min) / rng, for one cell of the column;
\* arithmetic on NaN gives NaN, and NaN == 0 is False
normalize(v, hi, lo) ==
    IF hi.nan THEN NaNq
    ELSE IF QEq(hi, lo) THEN Q(1, 2)
    ELSE IF v.nan THEN NaNq
    ELSE Q((v.num * lo.den - lo.num * v.den) * hi.den,
           v.den * (hi.num * lo.den - lo.num * hi.den))

\* the loop "for c in metric_cols" over prof_norm = city_profile.copy()
RECURSIVE prof_norm_rows(_, _, _)
prof_norm_rows(rows, hi, lo) ==
    IF rows = <<>> THEN <<>>
    ELSE <<[CustLocation |-> Head(rows).CustLocation,
            AvgFrequency |-> normalize(Head(rows).AvgFrequency, hi[1], lo[1]),
            AvgTotalMonetary |->
                normalize(Head(rows).AvgTotalMonetary, hi[2], lo[2]),
            AvgRecency |-> normalize(Head(rows).AvgRecency, hi[3], lo[3])]>>
         \o prof_norm_rows(Tail(rows), hi, lo)

prof_norm_of(profile) ==
    prof_norm_rows(profile,
        <<col_max(profile, metric_cols[1]), col_max(profile, metric_cols[2]),
          col_max(profile, metric_cols[3])>>,
        <<col_min(profile, metric_cols[1]), col_min(profile, metric_cols[2]),
          col_min(profile, metric_cols[3])>>)

\* -------------------------------------------------------- segment summary
\* mean(...).round(2) of a group's cells, in hundredths
mean_round2(vals) ==
    IF count_notna(vals) = 0 THEN NaN
    ELSE round2(sum_skipna(vals), count_notna(vals))

\* fdf.groupby("Cluster")[...].agg({...}).round(2).reset_index(): one row
\* per cluster, in group-key order
RECURSIVE seg_summary_rows(_, _)
seg_summary_rows(frame, keys) ==
    IF keys = <<>> THEN <<>>
    ELSE <<[Cluster |-> Head(keys),
            CustomerCount |->
                sum_skipna(group_cells(frame, "Cluster", Head(keys), "CustomerCount")),
            AvgFrequency |->
                mean_round2(group_cells(frame, "Cluster", Head(keys), "AvgFrequency")),
            AvgTotalMonetary |->
                mean_round2(group_cells(frame, "Cluster", Head(keys), "AvgTotalMonetary")),
            AvgRecency |->
                mean_round2(group_cells(frame, "Cluster", Head(keys), "AvgRecency"))]>>
         \o seg_summary_rows(frame, Tail(keys))

seg_summary_of(frame) == seg_summary_rows(frame, sorted(all_clusters(frame)))

\* ascending order of a bag of values, given as (value, index) pairs
RECURSIVE sort_pairs_asc(_)
sort_pairs_asc(pairs) ==
    IF pairs = {} THEN <<>>
    ELSE LET first == CHOOSE p \in pairs : \A q \in pairs :
                        \/ p[1] < q[1]
                        \/ q[1] = p[1] /\ p[2] <= q[2]
         IN  <<first[1]>> \o sort_pairs_asc(pairs \ {first})

\* Series.median() of a column, doubled so that the mean of the two middle
\* values of an even count stays an integer; missing values are skipped,
\* and the median is NaN when every value is missing
median2(rows, c) ==
    LET vals == sort_pairs_asc({<<rows[i][c], i>> : i \in
                                    {j \in DOMAIN rows : rows[j][c] # NaN}})
        n == Len(vals)
    IN  IF n = 0 THEN NaN
        ELSE IF n % 2 = 1 THEN 2 * vals[(n + 1) \div 2]
        ELSE vals[n \div 2] + vals[n \div 2 + 1]

gt_median(v, med2) == v # NaN /\ med2 # NaN /\ 2 * v > med2
\* row[col] >= median: any comparison with NaN is False
ge_median(v, med2) == v # NaN /\ med2 # NaN /\ 2 * v >= med2

\* the if/elif chain of one row of the summary
tag_of(row, med_spend, med_freq) ==
    IF ge_median(row.AvgTotalMonetary, med_spend)
       /\ ge_median(row.AvgFrequency, med_freq) THEN "premium"
    ELSE IF ge_median(row.AvgTotalMonetary, med_spend) THEN "value-add"
    ELSE IF ge_median(row.AvgFrequency, med_freq) THEN "cross-sell"
    ELSE "re-engagement"

\* the loop over seg_summary.sort_values("AvgTotalMonetary",
\* ascending=False).iterrows(); `order` holds the row positions
RECURSIVE recs_rows(_, _, _, _)
recs_rows(summary, order, med_spend, med_freq) ==
    IF order = <<>> THEN <<>>
    ELSE <<[Cluster |-> summary[Head(order)].Cluster,
            tag |-> tag_of(summary[Head(order)], med_spend, med_freq)]>>
         \o recs_rows(summary, Tail(order), med_spend, med_freq)

recs_of(summary) ==
    recs_rows(summary,
              sort_pairs_desc({<<summary[i].AvgTotalMonetary, i>> :
                                i \in DOMAIN summary}),
              median2(summary, "AvgTotalMonetary"),
              median2(summary, "AvgFrequency"))

\* ------------------------------------------------------------------ radar
\* prof_norm.sort_values("AvgTotalMonetary", ascending=False): the row
\* positions, largest normalised spend first, missing last, ties in order
RECURSIVE sort_profile_desc(_, _)
sort_profile_desc(norm, left) ==
    IF left = {} THEN <<>>
    ELSE LET known == {i \in left : ~norm[i].AvgTotalMonetary.nan}
             pool == IF known = {} THEN left ELSE known
             first == CHOOSE i \in pool : \A j \in pool :
                        /\ QLe(norm[j].AvgTotalMonetary, norm[i].AvgTotalMonetary)
                        /\ (QEq(norm[j].AvgTotalMonetary, norm[i].AvgTotalMonetary)
                                => i <= j)
         IN  <<norm[first].CustLocation>> \o sort_profile_desc(norm, left \ {first})

\* ...["CustLocation"].head(3).tolist()
default_choices(norm) ==
    head(sort_profile_desc(norm, DOMAIN norm), radar_default_n)

\* prof_plot[prof_plot["CustLocation"] == city][categories].iloc[0] raises
\* IndexError for a city that has no row in the profile
radar_raises(norm, cities) ==
    \E i \in DOMAIN cities :
        cities[i] \notin {norm[j].CustLocation : j \in DOMAIN norm}

\* ------------------------------------------------------------- script run
NoKpis == [total_customers |-> 0, cities |-> 0, segments |-> 0,
           weighted_spend |-> NaN]

\* The outcome of a run that ended before the derived names were bound.
halted(cached, elements, widgets) ==
    [cache |-> cached, pc |-> "stopped", rendered |-> elements,
     city_sel |-> widgets.city_sel, cluster_sel |-> widgets.cluster_sel,
     topn |-> widgets.topn, page_size |-> widgets.page_size,
     show_all |-> widgets.show_all, page |-> Unbound,
     df |-> <<>>, fdf_base |-> <<>>, fdf |-> <<>>, current_cities |-> <<>>,
     total_pages |-> Unbound, kpis |-> NoKpis, prof_norm |-> <<>>,
     seg_summary |-> <<>>, recs |-> <<>>, pick |-> <<>>]

\* The sidebar widgets of a run.  `first` is a session's first run, in
\* which every widget takes its default; afterwards `widgets` holds what
\* the user left in them.
sidebar(frame, first, widgets) ==
    IF first
    THEN [city_sel |-> all_cities(frame), cluster_sel |-> all_clusters(frame),
          topn |-> topn_None, page_size |-> page_size_default,
          show_all |-> FALSE]
    ELSE widgets

\* The show_all / pagination branch.  prev_page and prev_total are the
\* "City page" entry and the max_value it was made under.
paginate(base, size, all, prev_page, prev_total) ==
    IF all
    THEN [raised |-> FALSE, total_pages |-> Unbound, page |-> Unbound,
          current_cities |-> candidate_cities(base), fdf |-> base]
    ELSE LET total == total_pages_of(Len(candidate_cities(base)), size)
             entry == number_input(prev_page, prev_total, total)
             shown == current_cities_of(base, size, entry.value)
         IN  IF entry.raised
             THEN [raised |-> TRUE, total_pages |-> total, page |-> Unbound,
                   current_cities |-> <<>>, fdf |-> <<>>]
             ELSE [raised |-> FALSE, total_pages |-> total,
                   page |-> entry.value, current_cities |-> shown,
                   fdf |-> fdf_of(base, Range(shown))]

\* KPI row, tabs and footer of a run that got past the sidebar
tabs(cached, top, used, frame, base, paged, norm, summary) ==
    IF radar_raises(norm, default_choices(norm))
    THEN halted(cached, top \o <<"sidebar", "kpis", "tabs", "exception">>, used)
    ELSE [cache |-> cached,
          pc |-> "rendered",
          rendered |-> top \o <<"sidebar", "kpis", "tabs", "footer">>,
          city_sel |-> used.city_sel, cluster_sel |-> used.cluster_sel,
          topn |-> used.topn, page_size |-> used.page_size,
          show_all |-> used.show_all, page |-> paged.page,
          df |-> frame, fdf_base |-> base, fdf |-> paged.fdf,
          current_cities |-> paged.current_cities,
          total_pages |-> paged.total_pages,
          kpis |-> kpis_of(kpi_frame(frame, paged.fdf)), prof_norm |-> norm,
          seg_summary |-> summary, recs |-> recs_of(summary),
          pick |-> default_choices(norm)]

\* ------------------------------------------------------------------ state
VARIABLES
    file,            \* the environment: top_kpis.csv and the banner image
    cache,           \* the st.cache_data entry of load_csv(CSV_PATH)
    pc,              \* "new", "stopped" (st.stop or exception) or "rendered"
    rendered,        \* the elements the last run put on the page, in order
    city_sel, cluster_sel, topn, page_size, show_all, page,
    df, fdf_base, fdf, current_cities, total_pages,
    kpis, prof_norm, seg_summary, recs, pick

vars == <<file, cache, pc, rendered, city_sel, cluster_sel, topn, page_size,
          show_all, page, df, fdf_base, fdf, current_cities, total_pages,
          kpis, prof_norm, seg_summary, recs, pick>>

FilterState == [city_sel |-> city_sel, cluster_sel |-> cluster_sel,
                topn |-> topn, page_size |-> page_size, show_all |-> show_all]

DerivedView == <<df, fdf_base, fdf, current_cities, total_pages, page, kpis,
                 prof_norm, seg_summary, recs, pick>>

\* ------------------------------------------------------------ input tables
Row(city, cluster, count, freq, spend, recency) ==
    [CustLocation |-> city, Cluster |-> cluster, CustomerCount |-> count,
     AvgFrequency |-> freq, AvgTotalMonetary |-> spend, AvgRecency |-> recency]

Csv(rows, banner) ==
    [exists |-> TRUE, columns |-> required_cols, banner |-> banner, rows |-> rows]

\* no file at all, or a file that lacks one required column
FatalFiles ==
    {[exists |-> FALSE, columns |-> {}, banner |-> b, rows |-> <<>>] :
        b \in BOOLEAN}
    \cup {[exists |-> TRUE, columns |-> required_cols \ {c}, banner |-> b,
           rows |-> <<Row(1, 0, 1, 1, 1, 1)>>] :
            c \in required_cols, b \in BOOLEAN}

reverse(s) == [i \in DOMAIN s |-> s[Len(s) + 1 - i]]

\* General family: GenRows rows, each of either city, clusters
\* alternating; the cells follow the row position, and one variant holds
\* cells that do not parse in its first row.
GeneralFiles ==
    {Csv([i \in 1..GenRows |->
            Row(city[i], i % 2,
                IF bad /\ i = 1 THEN BadCell ELSE i,
                1 + (i % 2),
                IF bad /\ i = 1 THEN BadCell ELSE 1 + ((i * i) % 3),
                i)], bad) :
        city \in [1..GenRows -> 1..2], bad \in BOOLEAN}

\* Ranking family: NRankCities cities, one cluster-0 row each with a count
\* of RankCounts, in ascending or descending city order, and a cluster-1
\* row of the first city.
RankCounts == {1, 2}
RankFiles ==
    {Csv((IF up THEN [c \in 1..NRankCities |-> Row(c, 0, count[c], 1, c, 1)]
          ELSE reverse([c \in 1..NRankCities |-> Row(c, 0, count[c], 1, c, 1)]))
         \o <<Row(1, 1, 2, 2, 1, 1)>>, FALSE) :
        count \in [1..NRankCities -> RankCounts], up \in BOOLEAN}

\* Paging family: NPageCities cities in descending city order, clusters
\* alternating, and a second row of the last city.
PageFiles ==
    {Csv(reverse([c \in 1..NPageCities |-> Row(c, c % 2, 1, 1, 1, 1)])
         \o <<Row(NPageCities, 0, 2, 1, 1, 1)>>, FALSE)}

\* Metric family: three cities and three clusters in four rows, with
\* frequency and spend cells drawn per row; recency is missing where spend
\* is.
MetricValues == {1, 3}
MetricFiles ==
    {Csv(<<Row(1, 0, 1, f[1], s[1], s[1]),
           Row(1, 1, 2, f[2], s[2], s[2]),
           Row(2, 2, 1, 3, s[3], 1),
           Row(3, 0, 1, 1, s[4], 2)>>, FALSE) :
        f \in [1..2 -> MetricValues], s \in [1..4 -> MetricValues \cup {BadCell}]}

\* ---------------------------------------------------------------- actions
InitWith(files) ==
    /\ file \in files \cup FatalFiles
    /\ cache = EmptyCache
    /\ pc = "new"
    /\ rendered = <<>>
    /\ city_sel = {} /\ cluster_sel = {} /\ topn = topn_None
    /\ page_size = page_size_default /\ show_all = FALSE /\ page = Unbound
    /\ df = <<>> /\ fdf_base = <<>> /\ fdf = <<>> /\ current_cities = <<>>
    /\ total_pages = Unbound /\ kpis = NoKpis /\ prof_norm = <<>>
    /\ seg_summary = <<>> /\ recs = <<>> /\ pick = <<>>

Show(outcome) ==
    \E out \in {outcome} :
    /\ cache' = out.cache
    /\ pc' = out.pc
    /\ rendered' = out.rendered
    /\ city_sel' = out.city_sel
    /\ cluster_sel' = out.cluster_sel
    /\ topn' = out.topn
    /\ page_size' = out.page_size
    /\ show_all' = out.show_all
    /\ page' = out.page
    /\ df' = out.df
    /\ fdf_base' = out.fdf_base
    /\ fdf' = out.fdf
    /\ current_cities' = out.current_cities
    /\ total_pages' = out.total_pages
    /\ kpis' = out.kpis
    /\ prof_norm' = out.prof_norm
    /\ seg_summary' = out.seg_summary
    /\ recs' = out.recs
    /\ pick' = out.pick
    /\ UNCHANGED file

\* One execution of app.py, top to bottom; the page shows its outcome.
Run(first, widgets, prev_page, prev_total) ==
    \E loaded \in {load_csv(file, cache)} :
    \E top \in {<<"header">> \o (IF file.banner THEN <<"banner">> ELSE <<>>)} :
        IF loaded.stop
        THEN Show(halted(cache, <<"error">>, widgets))
        ELSE IF missing(file) # {}
        THEN Show(halted(cache_data(loaded.data, loaded.data),
                         top \o <<"error">>, widgets))
        ELSE
            \E frame \in {coerce(loaded.data)} :
            \E cached \in {cache_data(loaded.data, frame)} :
            \E used \in {sidebar(frame, first, widgets)} :
            \E base \in {fdf_base_of(frame, used.city_sel, used.cluster_sel,
                                     used.topn)} :
            \E paged \in {paginate(base, used.page_size, used.show_all,
                                   prev_page, prev_total)} :
                IF paged.raised
                THEN Show(halted(cached, top \o <<"sidebar", "exception">>,
                                 used))
                ELSE
                    \E norm \in {prof_norm_of(city_profile(paged.fdf))} :
                    \E summary \in {seg_summary_of(paged.fdf)} :
                        Show(tabs(cached, top, used, frame, base, paged,
                                  norm, summary))

\* a browser opens the app
Open ==
    /\ pc = "new"
    /\ Run(TRUE, FilterState, Unbound, Unbound)

\* "Rerun": the script runs again on the widgets as they stand
Rerun ==
    /\ pc # "new"
    /\ Run(pc = "stopped", FilterState, page, total_pages)

\* the "City (multi)" multiselect: one option is added or removed
SetCities ==
    /\ pc = "rendered"
    /\ \E c \in all_cities(df) :
        Run(FALSE,
            [FilterState EXCEPT
                !.city_sel = IF c \in city_sel THEN city_sel \ {c}
                             ELSE city_sel \cup {c}],
            page, total_pages)

\* the "Segment (Cluster)" multiselect: one option is added or removed
SetClusters ==
    /\ pc = "rendered"
    /\ \E k \in all_clusters(df) :
        Run(FALSE,
            [FilterState EXCEPT
                !.cluster_sel = IF k \in cluster_sel THEN cluster_sel \ {k}
                                ELSE cluster_sel \cup {k}],
            page, total_pages)

\* the Top-N checkbox: ticking it brings up the slider at its default
ToggleTopN ==
    /\ pc = "rendered"
    /\ Run(FALSE,
           [FilterState EXCEPT
               !.topn = IF topn = topn_None THEN topn_default ELSE topn_None],
           page, total_pages)

\* the Top-N slider
SetTopN ==
    /\ pc = "rendered"
    /\ topn # topn_None
    /\ \E k \in (topn_min..MaxTopN) \cup {topn_default} :
        /\ k # topn
        /\ Run(FALSE, [FilterState EXCEPT !.topn = k], page, total_pages)

\* the "Cities per page" slider
SetPageSize ==
    /\ pc = "rendered"
    /\ \E s \in (page_size_min..MaxPageSize) \cup {page_size_default} :
        /\ s # page_size
        /\ Run(FALSE, [FilterState EXCEPT !.page_size = s], page, total_pages)

\* the "Show all cities" checkbox
ToggleShowAll ==
    /\ pc = "rendered"
    /\ Run(FALSE, [FilterState EXCEPT !.show_all = ~show_all], page, total_pages)

\* the "City page" number input, which lets the user enter 1..max_value
SetPage ==
    /\ pc = "rendered"
    /\ ~show_all
    /\ \E p \in 1..total_pages :
        /\ p # page
        /\ Run(FALSE, FilterState, p, total_pages)

Next ==
    \/ Open
    \/ Rerun
    \/ SetCities
    \/ SetClusters
    \/ ToggleTopN
    \/ SetTopN
    \/ SetPageSize
    \/ ToggleShowAll
    \/ SetPage

\* The whole app on the general family. Its tables have fewer cities than
\* the smallest page size, so the page box offers the single page 1 and
\* there is no other page to pick.
Init == InitWith(GeneralFiles)
NextGeneral ==
    \/ Open
    \/ Rerun
    \/ SetCities
    \/ SetClusters
    \/ ToggleTopN
    \/ SetTopN
    \/ SetPageSize
    \/ ToggleShowAll
Spec == Init /\ [][NextGeneral]_vars

\* The filter stage on the ranking family: the user works the city,
\* cluster and Top-N widgets.
InitRank == InitWith(RankFiles)
NextRank ==
    \/ Open
    \/ SetCities
    \/ SetClusters
    \/ ToggleTopN
    \/ SetTopN
SpecRank == InitRank /\ [][NextRank]_vars

\* The whole app on the paging family.
InitPage == InitWith(PageFiles)
SpecPage == InitPage /\ [][Next]_vars

\* The aggregate stage on the metric family: the user works the city and
\* cluster widgets.
InitMetric == InitWith(MetricFiles)
NextMetric ==
    \/ Open
    \/ SetCities
    \/ SetClusters
SpecMetric == InitMetric /\ [][NextMetric]_vars

\* ------------------------------------------------------------- properties
\* Stated on the rows themselves, not through the pipeline's operators.
Passes(r) == r.CustLocation \in city_sel /\ r.Cluster \in cluster_sel

\* the rows of df that pass the city/cluster filter, in order
Passing == SelectSeq(df, Passes)

CitiesOf(rows) == {rows[i].CustLocation : i \in DOMAIN rows}

\* total CustomerCount of a city over the first i rows, missing counted 0
RECURSIVE TotalUpTo(_, _, _)
TotalUpTo(rows, c, i) ==
    IF i = 0 THEN 0
    ELSE TotalUpTo(rows, c, i - 1)
         + (IF rows[i].CustLocation = c /\ rows[i].CustomerCount # NaN
               THEN rows[i].CustomerCount ELSE 0)

Total(rows, c) == TotalUpTo(rows, c, Len(rows))

FirstAppearance(rows, c) ==
    SetMin({i \in DOMAIN rows : rows[i].CustLocation = c})

ValidFile == file.exists /\ missing(file) = {}

\* C1: filter idempotence.  With no Top-N cut, applying the city/cluster
\* filter with the same selections to the filtered frame gives back the
\* same rows in the same order, both for the filter as the claim words it
\* (CustLocation in C and Cluster in K) and for the code's.
C1_FilterIdempotent ==
    pc = "rendered" /\ topn = topn_None =>
        /\ SelectSeq(fdf_base, Passes) = fdf_base
        /\ fdf_base_of(fdf_base, city_sel, cluster_sel, topn_None) = fdf_base

\* the filter dropped some rows and kept some
C1_Witness ==
    /\ pc = "rendered" /\ topn = topn_None
    /\ fdf_base # <<>> /\ Len(fdf_base) < Len(df)
    /\ cluster_sel # all_clusters(df) /\ city_sel # all_cities(df)

\* the rows of page p at a page size
PageIndices(size, p) ==
    {i \in DOMAIN fdf_base :
        fdf_base[i].CustLocation \in Range(current_cities_of(fdf_base, size, p))}

\* C2: pagination coverage.  For the filtered frame of the run and every
\* page size of the slider, each row is on exactly one of the pages
\* 1..totalPages, every page holds its rows as the frame orders them, and
\* the frame shown is the current page's rows (all rows under show-all).
C2_PaginationCoverage ==
    pc = "rendered" =>
        /\ \A size \in page_size_min..page_size_max :
            LET total == total_pages_of(Cardinality(CitiesOf(fdf_base)), size)
            IN  /\ \A i \in DOMAIN fdf_base :
                    Cardinality({p \in 1..total : i \in PageIndices(size, p)}) = 1
                /\ \A p \in 1..total :
                    fdf_of(fdf_base, Range(current_cities_of(fdf_base, size, p)))
                        = SelectSeq(fdf_base,
                            LAMBDA r : \E i \in PageIndices(size, p) :
                                        fdf_base[i].CustLocation = r.CustLocation)
        /\ show_all => fdf = fdf_base
        /\ ~show_all =>
            fdf = SelectSeq(fdf_base,
                    LAMBDA r : \E i \in PageIndices(page_size, page) :
                                fdf_base[i].CustLocation = r.CustLocation)

\* the second of two pages is shown and holds rows
C2_Witness ==
    /\ pc = "rendered" /\ ~show_all
    /\ total_pages = 2 /\ page = 2
    /\ fdf # <<>> /\ Len(fdf) < Len(fdf_base)

\* C3: Top-N correctness.  With Top-N = k, the cities retained are
\* min(k, number of cities passing the filter) cities; no dropped city has
\* a strictly larger total (summed over the rows that passed the filter)
\* than a retained one; the rows kept are exactly the passing rows of the
\* retained cities; with at most k cities passing, no row is dropped.
C3_TopN ==
    pc = "rendered" /\ topn # topn_None =>
        LET kept == CitiesOf(fdf_base)
            cand == CitiesOf(Passing)
        IN  /\ kept \subseteq cand
            /\ Cardinality(kept) = Min2(topn, Cardinality(cand))
            /\ \A d \in cand \ kept : \A k \in kept :
                    Total(Passing, d) <= Total(Passing, k)
            /\ fdf_base = SelectSeq(Passing, LAMBDA r : r.CustLocation \in kept)
            /\ Cardinality(cand) <= topn => fdf_base = Passing

\* Top-N cut a city whose total is strictly below every retained one
C3_Witness ==
    /\ pc = "rendered" /\ topn = topn_min
    /\ Cardinality(CitiesOf(Passing)) > topn_min
    /\ \E d \in CitiesOf(Passing) \ CitiesOf(fdf_base) :
        \E k \in CitiesOf(fdf_base) : Total(Passing, d) < Total(Passing, k)

\* the normalised cell of a city and a metric, and the city's mean
MeanOf(c, m) == mean(group_cells(fdf, "CustLocation", c, m))
NormOf(c, m) ==
    (CHOOSE r \in Range(prof_norm) : r.CustLocation = c)[m]

\* C4: normalization bounds.  For every metric, when the per-city means of
\* the cities in view have max > min, every city's normalised value lies
\* in [0,1], a city with the largest mean maps to 1 and one with the
\* smallest to 0; when max = min every normalised value is 0.5.
C4_NormalizationBounds ==
    pc = "rendered" =>
        \A m \in Range(metric_cols) :
            LET cities == CitiesOf(fdf)
                known == {c \in cities : ~MeanOf(c, m).nan}
                spread == \E a \in known : \E b \in known :
                            ~QEq(MeanOf(a, m), MeanOf(b, m))
            IN  /\ spread =>
                    \A c \in cities :
                        /\ ~NormOf(c, m).nan
                        /\ 0 <= NormOf(c, m).num
                        /\ NormOf(c, m).num <= NormOf(c, m).den
                        /\ (c \in known /\ \A b \in known :
                                QLe(MeanOf(b, m), MeanOf(c, m)))
                            => NormOf(c, m).num = NormOf(c, m).den
                        /\ (c \in known /\ \A b \in known :
                                QLe(MeanOf(c, m), MeanOf(b, m)))
                            => NormOf(c, m).num = 0
                /\ (known # {} /\ ~spread) =>
                    \A c \in cities : NormOf(c, m) = Q(1, 2)

\* the same statement for the cities whose mean is not missing
C4_KnownMeansOnly ==
    pc = "rendered" =>
        \A m \in Range(metric_cols) :
            LET known == {c \in CitiesOf(fdf) : ~MeanOf(c, m).nan}
                spread == \E a \in known : \E b \in known :
                            ~QEq(MeanOf(a, m), MeanOf(b, m))
            IN  spread =>
                    \A c \in known :
                        /\ ~NormOf(c, m).nan
                        /\ 0 <= NormOf(c, m).num
                        /\ NormOf(c, m).num <= NormOf(c, m).den

\* the total CustomerCount of df, missing counted 0
RECURSIVE CountUpTo(_, _)
CountUpTo(rows, i) ==
    IF i = 0 THEN 0
    ELSE CountUpTo(rows, i - 1)
         + (IF rows[i].CustomerCount # NaN THEN rows[i].CustomerCount ELSE 0)

\* C5: the four KPIs are computed over the full dataset.  No interaction
\* (city or cluster selection, Top-N, page size, page, show-all, rerun)
\* changes any of them, and the customer total and the city and segment
\* counts are those of all the rows of df.
C5_KpisUnfiltered ==
    [][(pc = "rendered" /\ pc' = "rendered" => kpis' = kpis)
       /\ (pc' = "rendered" =>
            /\ kpis'.total_customers = CountUpTo(df', Len(df'))
            /\ kpis'.cities = Cardinality(CitiesOf(df'))
            /\ kpis'.segments =
                    Cardinality({df'[i].Cluster : i \in DOMAIN df'}))]_vars

\* the view is a strict part of the data while the KPIs stand for all of it
C5_Witness ==
    /\ pc = "rendered"
    /\ fdf # <<>> /\ Len(fdf) < Len(df)
    /\ Cardinality(CitiesOf(fdf)) < kpis.cities
    /\ CountUpTo(fdf, Len(fdf)) < kpis.total_customers

\* C6: a fatal load error (no file, or a required column absent) shows the
\* error message and nothing else of the dashboard in that run.
C6_FatalShowsOnlyError ==
    pc = "stopped" /\ ~ValidFile => rendered = <<"error">>

\* C7: pagination bounds and empty result.  No run of a valid file raises;
\* without show-all, totalPages = max(1, ceil(cities / pageSize)) and the
\* page is within 1..totalPages; when no row passes the city selection,
\* the filtered frame is empty, totalPages is 1, the page is empty and the
\* render completes with empty aggregate tables and an empty strategy list.
C7_PaginationBounds ==
    pc # "new" /\ ValidFile =>
        /\ pc = "rendered"
        /\ rendered[Len(rendered)] = "footer"
        /\ ~show_all =>
            /\ total_pages >= 1
            /\ total_pages * page_size >= Cardinality(CitiesOf(fdf_base))
            /\ \/ total_pages = 1
               \/ (total_pages - 1) * page_size < Cardinality(CitiesOf(fdf_base))
            /\ page \in 1..total_pages
        /\ (\A i \in DOMAIN df : df[i].CustLocation \notin city_sel) =>
            /\ fdf_base = <<>>
            /\ fdf = <<>>
            /\ ~show_all => total_pages = 1 /\ page = 1
            /\ current_cities = <<>>
            /\ prof_norm = <<>> /\ seg_summary = <<>> /\ recs = <<>>

\* a city selection disjoint from the data, under pagination
C7_Witness ==
    /\ pc = "rendered" /\ ~show_all
    /\ df # <<>> /\ city_sel = {}
    /\ total_pages = 1 /\ fdf = <<>>
    /\ rendered[Len(rendered)] = "footer"

\* C8: the derived view is a function of the dataset and the filter state.
\* Whatever interactions came before, the cached dataset is the table as
\* it was read from the file, and the frames and aggregate tables of the
\* run are those of the pipeline applied to that table and the widgets as
\* they stand.
C8_ViewIsPure ==
    pc = "rendered" =>
        /\ cache = [full |-> TRUE, rows |-> file.rows]
        /\ df = coerce(file.rows)
        /\ fdf_base = fdf_base_of(coerce(file.rows), city_sel, cluster_sel, topn)
        /\ fdf = IF show_all THEN fdf_base
                 ELSE fdf_of(fdf_base,
                        Range(current_cities_of(fdf_base, page_size, page)))
        /\ kpis = kpis_of(coerce(file.rows))
        /\ prof_norm = prof_norm_of(city_profile(fdf))
        /\ seg_summary = seg_summary_of(fdf)
        /\ recs = recs_of(seg_summary)

\* a table with cells that do not parse, after the user changed the
\* filters, the Top-N cutoff and the show-all flag
C8_Witness ==
    /\ pc = "rendered"
    /\ df # file.rows
    /\ city_sel # all_cities(df) /\ cluster_sel # all_clusters(df)
    /\ topn # topn_None /\ show_all
    /\ fdf # <<>>

SummaryOf(k) == CHOOSE r \in Range(seg_summary) : r.Cluster = k

Meets(v, med2) == v # NaN /\ med2 # NaN /\ 2 * v >= med2

\* C9: strategy classification.  Every cluster of the summary gets exactly
\* one tag of the four; the tags come in descending order of the cluster's
\* AvgTotalMonetary (clusters whose spend is missing last); and the tag is
\* fixed by whether spend and frequency meet their medians over the
\* summary, a value equal to the median meeting it.
C9_Strategy ==
    pc = "rendered" =>
        LET med_spend == median2(seg_summary, "AvgTotalMonetary")
            med_freq == median2(seg_summary, "AvgFrequency")
        IN  /\ Len(recs) = Len(seg_summary)
            /\ {recs[i].Cluster : i \in DOMAIN recs}
                    = {seg_summary[i].Cluster : i \in DOMAIN seg_summary}
            /\ \A i \in DOMAIN recs : \A j \in DOMAIN recs :
                    i < j =>
                        LET a == SummaryOf(recs[i].Cluster).AvgTotalMonetary
                            b == SummaryOf(recs[j].Cluster).AvgTotalMonetary
                        IN  /\ recs[i].Cluster # recs[j].Cluster
                            /\ a = NaN => b = NaN
                            /\ a # NaN /\ b # NaN => a >= b
            /\ \A i \in DOMAIN recs :
                    LET row == SummaryOf(recs[i].Cluster)
                        spend == Meets(row.AvgTotalMonetary, med_spend)
                        freq == Meets(row.AvgFrequency, med_freq)
                    IN  recs[i].tag =
                            IF spend /\ freq THEN "premium"
                            ELSE IF spend THEN "value-add"
                            ELSE IF freq THEN "cross-sell"
                            ELSE "re-engagement"

\* three clusters, one of them exactly at the median spend and tagged as
\* meeting it, and one below it
C9_Witness ==
    /\ pc = "rendered" /\ Len(recs) = 3
    /\ \E i \in DOMAIN recs :
        /\ 2 * SummaryOf(recs[i].Cluster).AvgTotalMonetary
                = median2(seg_summary, "AvgTotalMonetary")
        /\ recs[i].tag \in {"premium", "value-add"}
    /\ \E i \in DOMAIN recs : recs[i].tag = "cross-sell"
    /\ \E i \in DOMAIN recs : \E j \in DOMAIN recs :
        SummaryOf(recs[i].Cluster).AvgTotalMonetary
            > SummaryOf(recs[j].Cluster).AvgTotalMonetary

\* C10: Top-N tie-breaking.  Among cities of equal total at the cutoff,
\* the one whose first row comes earlier in the dataset is the one kept.
C10_TieByFirstAppearance ==
    pc = "rendered" /\ topn # topn_None =>
        \A k \in CitiesOf(fdf_base) :
            \A d \in CitiesOf(Passing) \ CitiesOf(fdf_base) :
                Total(Passing, d) = Total(Passing, k)
                    => FirstAppearance(df, k) < FirstAppearance(df, d)
====
